---- MODULE Spec2Model ----
(***************************************************************************)
(* Model of the ScanMaster drawing engine:                                 *)
(*   - GeometryEngine.build_solid   (geometry_engine.py)                   *)
(*   - generate_drawing             (drawing_engine.py)                    *)
(* The CadQuery kernel and the FreeCAD/TechDraw renderer are external      *)
(* collaborators; their calls are recorded in call traces and their        *)
(* results are modelled as plain values (work planes, solids, document     *)
(* objects).  The model covers runs in which the external calls return     *)
(* normally and FREECAD_PATH is configured.                                *)
(***************************************************************************)
EXTENDS Integers, Sequences, FiniteSets, TLC

\* ----- bounds -------------------------------------------------------------
MaxOps == 3
MaxOpsRepeat == 2
MaxRuns == 3
MaxViews == 2
MaxDims == 2
MaxJobOps == 3

\* ----- option values: Python None is <<>>, a present value x is <<x>> -----
None == <<>>
Some(x) == <<x>>

\* ----- operation specs (geometry_engine.py dataclasses) -------------------
SketchCircle(radius, is_hole) ==
    [type |-> "SketchCircle", radius |-> radius, is_hole |-> is_hole]

Extrude(length) == [type |-> "Extrude", length |-> length]

BaseBox(width, depth, height, centered_xy, centered_z) ==
    [type |-> "BaseBox", width |-> width, depth |-> depth, height |-> height,
     centered_xy |-> centered_xy, centered_z |-> centered_z]

CutBox(width, depth, height, center) ==
    [type |-> "CutBox", width |-> width, depth |-> depth, height |-> height,
     center |-> center]

ThroughHole(radius, depth, axis, center) ==
    [type |-> "ThroughHole", radius |-> radius, depth |-> depth,
     axis |-> axis, center |-> center]

\* An object that is none of the five dataclasses (the classifier's else branch).
OtherOp == [type |-> "Other"]

\* The operations the inputs are drawn from: valid and invalid ones of each type.
Operations ==
    { SketchCircle(1, FALSE), SketchCircle(2, FALSE),
      SketchCircle(1, TRUE), SketchCircle(0, TRUE),
      Extrude(3), Extrude(0),
      BaseBox(4, 5, 6, TRUE, FALSE), BaseBox(4, 5, 6, FALSE, TRUE),
      BaseBox(4, 0, 6, TRUE, FALSE),
      CutBox(1, 1, 1, <<1, 2, 3>>), CutBox(2, 1, 1, <<3, 2, 1>>),
      CutBox(1, 1, 0, <<1, 2, 3>>),
      ThroughHole(1, 1, "z", <<1, 2, 5>>), ThroughHole(1, 1, "x", <<4, 2, 5>>),
      ThroughHole(1, 1, "y", <<1, 6, 5>>), ThroughHole(0, 1, "z", <<1, 2, 5>>),
      ThroughHole(1, 0, "z", <<1, 2, 5>>), ThroughHole(1, 1, "w", <<1, 2, 5>>),
      OtherOp }

SeqsUpTo(S, n) == UNION { [1..k -> S] : k \in 0..n }

\* SolidSpec.operations; the id only appears in error messages.
SolidSpecs == SeqsUpTo(Operations, MaxOps)

\* The SolidSpecs of the repeated-invocation runs, and the specs of the two
\* repository tests, which the later invocations may also be given.
RepeatSpecs == SeqsUpTo(Operations, MaxOpsRepeat)

RingSpec == <<SketchCircle(2, FALSE), SketchCircle(1, TRUE), Extrude(3)>>

BlockSpec == <<BaseBox(4, 5, 6, FALSE, TRUE), CutBox(1, 1, 1, <<1, 2, 3>>),
               ThroughHole(1, 1, "z", <<1, 2, 5>>)>>

\* ----- drawing specs (drawing_engine.py dataclasses) -------------------------
\* Python strings that are lower-cased are sequences of characters.
UpperCase == <<"A", "B", "C", "D", "E", "F", "G", "H", "I", "J", "K", "L", "M",
               "N", "O", "P", "Q", "R", "S", "T", "U", "V", "W", "X", "Y", "Z">>
LowerCase == <<"a", "b", "c", "d", "e", "f", "g", "h", "i", "j", "k", "l", "m",
               "n", "o", "p", "q", "r", "s", "t", "u", "v", "w", "x", "y", "z">>

\* str.lower() on the ASCII letters.
LowerChar(c) ==
    IF \E k \in 1..26 : UpperCase[k] = c
    THEN LowerCase[CHOOSE k \in 1..26 : UpperCase[k] = c]
    ELSE c

Lower(str) == [k \in 1..Len(str) |-> LowerChar(str[k])]

StrLinear == <<"l", "i", "n", "e", "a", "r">>
StrDistance == <<"d", "i", "s", "t", "a", "n", "c", "e">>
StrDiameter == <<"d", "i", "a", "m", "e", "t", "e", "r">>
StrRadial == <<"r", "a", "d", "i", "a", "l">>
StrRadius == <<"r", "a", "d", "i", "u", "s">>
TypeDistance == <<"D", "i", "s", "t", "a", "n", "c", "e">>
TypeDiameter == <<"D", "i", "a", "m", "e", "t", "e", "r">>

ViewSpec(id, direction, is_section, section_normal, scale) ==
    [id |-> id, direction |-> direction, is_section |-> is_section,
     section_normal |-> section_normal, scale |-> scale]

DimensionSpec(view_id, kind, label, edges) ==
    [view_id |-> view_id, kind |-> kind, label |-> label, edges |-> edges]

\* The views the inputs are drawn from: plain and section views, with and
\* without section_normal and scale.
ViewSpecs ==
    { ViewSpec("v1", <<0, 0, 1>>, FALSE, None, None),
      ViewSpec("v1", <<0, 0, 1>>, TRUE, None, None),
      ViewSpec("v1", <<0, 0, 1>>, TRUE, Some(<<1, 0, 0>>), None),
      ViewSpec("v1", <<0, 0, 1>>, FALSE, Some(<<1, 0, 0>>), None),
      ViewSpec("v2", <<0, 1, 0>>, FALSE, None, Some(2)) }

\* The dimensions the inputs are drawn from; no view is ever called "v9".
DimensionSpecs ==
    { DimensionSpec("v1", StrLinear, "L1", <<"Edge1", "Edge2">>),
      DimensionSpec("v1", <<"D", "i", "a", "m", "e", "t", "e", "r">>, "D1", <<"Edge3">>),
      DimensionSpec("v1", <<"A", "n", "g", "l", "e">>, "A1", <<"Edge2", "Edge1">>),
      DimensionSpec("v2", <<"R", "A", "D", "I", "U", "S">>, "R2", <<"Edge1">>),
      DimensionSpec("v2", StrDistance, "L2", <<"Edge1", "Edge2">>),
      DimensionSpec("v9", StrLinear, "L9", <<"Edge1", "Edge2">>),
      DimensionSpec("v9", <<"A", "n", "g", "l", "e">>, "A9", <<>>) }

\* ----- CadQuery kernel values ---------------------------------------------
\* Named planes of cq.Workplane: local x direction, local y direction, normal.
XDir(plane) ==
    CASE plane = "XY" -> <<1, 0, 0>>
      [] plane = "YZ" -> <<0, 1, 0>>
      [] plane = "XZ" -> <<1, 0, 0>>

YDir(plane) ==
    CASE plane = "XY" -> <<0, 1, 0>>
      [] plane = "YZ" -> <<0, 0, 1>>
      [] plane = "XZ" -> <<0, 0, 1>>

ZDir(plane) ==
    CASE plane = "XY" -> <<0, 0, 1>>
      [] plane = "YZ" -> <<1, 0, 0>>
      [] plane = "XZ" -> <<0, -1, 0>>

VAdd(u, v) == <<u[1] + v[1], u[2] + v[2], u[3] + v[3]>>
VScale(k, u) == <<k * u[1], k * u[2], k * u[3]>>

\* cq.Workplane(plane): origin at the global origin, empty stack, no pending wires.
Workplane(plane) ==
    [plane |-> plane, origin |-> <<0, 0, 0>>, objects |-> <<>>, wires |-> <<>>]

\* Workplane.center(x, y): shift the origin by (x, y) in local coordinates.
WpCenter(wp, x, y) ==
    LET o == VAdd(wp.origin, VAdd(VScale(x, XDir(wp.plane)), VScale(y, YDir(wp.plane))))
    IN [wp EXCEPT !.origin = o, !.objects = <<o>>]

\* Workplane.circle(r): a circle wire at the current origin, pushed on the
\* stack and added to the pending wires.
WpCircle(wp, r) ==
    LET w == [radius |-> r, at |-> wp.origin]
    IN [wp EXCEPT !.objects = <<w>>, !.wires = Append(wp.wires, w)]

\* Workplane.extrude(distance, both): the pending wires swept along the plane
\* normal from 0 to distance, and also from -distance to 0 when both is set.
WpExtrude(wp, distance, both) ==
    [kind |-> "extrusion", plane |-> wp.plane, wires |-> wp.wires,
     lo |-> IF both THEN 0 - distance ELSE 0, hi |-> distance]

\* Workplane.box(w, d, h, centered): a box at the current origin; "at" is the
\* centre along a centred axis and the lower face along the others.
WpBox(wp, w, d, h, centered) ==
    [kind |-> "box", dims |-> <<w, d, h>>, centered |-> centered, at |-> wp.origin]

\* Workplane.translate(vec) of a box tool.
Translate(tool, vec) == [tool EXCEPT !.at = VAdd(tool.at, vec)]

\* A solid body: a base primitive and the tools subtracted from it so far.
NewSolid(base) == [base |-> base, cuts |-> <<>>]

\* Workplane.cut(tool).
Cut(solid, tool) == [solid EXCEPT !.cuts = Append(solid.cuts, tool)]

Call(fn, args) == [fn |-> fn, args |-> args]

\* The page title, template and output paths of the direct invocations.
PageTitle == "page"
TemplatePath == "A4.svg"
OutputPdf == "out.pdf"
OutputSvg == "out.svg"

\* ----- state ----------------------------------------------------------------
VARIABLES
    ops,             \* spec.operations of the current build_solid invocation
    pc,              \* position of build_solid
    i,               \* index of the loop in progress
    sketch_circles,  \* classification buckets (locals of build_solid)
    extrude_op,
    base_box,
    cut_boxes,
    through_holes,
    solid,           \* the local "solid"; None until the base is built
    calls,           \* kernel calls issued by the current invocation
    err,             \* the error raised, "none" while none is
    runs,            \* number of invocations started on this engine instance
    refOps,          \* spec.operations of the first invocation
    refOutcome,      \* outcome of the first invocation, once it has finished
    views,           \* spec.views of the generate_drawing invocation
    dimensions,      \* spec.dimensions
    output_svg,      \* the optional SVG path
    gpc,             \* position of generate_drawing
    gi,              \* index of the loop in progress
    doc,             \* the renderer document; None until it is created
    objects,         \* the objects added to the document, in creation order
    page_views,      \* indices of the objects added to the page
    view_objects,    \* the id -> view lookup table (indices into objects)
    exports,         \* export calls issued
    gerr,            \* the error raised, "none" while none is
    output_pdf,      \* the PDF path generate_drawing was given
    job,             \* the JSON object run_job was given; None without a job
    jpc,             \* position of run_job
    ji,              \* index of the decoding loop
    decoded,         \* the local "ops" of _solid_spec_from_dict
    solid_spec,      \* run_job's solid_spec; None until decoded
    drawing_spec,    \* run_job's drawing_spec; None until decoded
    jerr             \* the error the decoders raised, "none" while none is

solidVars == <<ops, pc, i, sketch_circles, extrude_op, base_box, cut_boxes,
               through_holes, solid, calls, err>>
histVars == <<runs, refOps, refOutcome>>
drawVars == <<views, dimensions, output_svg, gpc, gi, doc, objects, page_views,
              view_objects, exports, gerr, output_pdf>>
jobVars == <<job, jpc, ji, decoded, solid_spec, drawing_spec, jerr>>

\* ----- build_solid: validation conditions -----------------------------------
BadSketchCircle(op) == op.radius <= 0

\* The cardinality check left out.
DuplicateExtrudeUnchecked(ex) == FALSE

DuplicateExtrude(ex) == ex # None

BadExtrude(op) == op.length <= 0

DuplicateBaseBox(bb) == bb # None

BadBaseBox(op) == op.width <= 0 \/ op.depth <= 0 \/ op.height <= 0

\* The CutBox dimensions left unchecked.
BadCutBoxUnchecked(op) == FALSE

BadCutBox(op) == op.width <= 0 \/ op.depth <= 0 \/ op.height <= 0

BadThroughHoleSize(op) == op.radius <= 0 \/ op.depth <= 0

BadThroughHoleAxis(op) == op.axis \notin {"x", "y", "z"}

\* The error the classification loop raises on op, "none" if it is accepted.
ClassifyError(op, ex, bb) ==
    CASE op.type = "SketchCircle" ->
           IF BadSketchCircle(op) THEN "InvalidOperationParameter" ELSE "none"
      [] op.type = "Extrude" ->
           IF DuplicateExtrude(ex) THEN "DuplicateExtrude"
           ELSE IF BadExtrude(op) THEN "InvalidOperationParameter" ELSE "none"
      [] op.type = "BaseBox" ->
           IF DuplicateBaseBox(bb) THEN "DuplicateBaseBox"
           ELSE IF BadBaseBox(op) THEN "InvalidOperationParameter" ELSE "none"
      [] op.type = "CutBox" ->
           IF BadCutBox(op) THEN "InvalidOperationParameter" ELSE "none"
      [] op.type = "ThroughHole" ->
           IF BadThroughHoleSize(op) THEN "InvalidOperationParameter"
           ELSE IF BadThroughHoleAxis(op) THEN "InvalidOperationParameter" ELSE "none"
      [] OTHER -> "UnsupportedOperationType"

\* The style check with the BaseBox test forgotten.
MixedBaseStyleAnySketch(bb, scs, ex) == scs # <<>> \/ ex # None

\* The style check with the Extrude forgotten.
MixedBaseStyleCirclesOnly(bb, scs, ex) == bb # None /\ scs # <<>>

MixedBaseStyle(bb, scs, ex) == bb # None /\ (scs # <<>> \/ ex # None)

\* The missing-base check with "or" for "and".
NoBaseStyleEither(bb, ex) == bb = None \/ ex = None

NoBaseStyle(bb, ex) == bb = None /\ ex = None

\* "wp.objects is None or len(wp.objects) == 0"
NoPositiveGeometry(wp) == Len(wp.objects) = 0

\* ----- build_solid: construction helpers ------------------------------------
\* The profile loop without the is_hole filter.
RECURSIVE DrawAllCircles(_, _)
DrawAllCircles(wp, scs) ==
    IF scs = <<>> THEN wp
    ELSE DrawAllCircles(WpCircle(wp, Head(scs).radius), Tail(scs))

\* "for sc in sketch_circles: if not sc.is_hole: wp = wp.circle(sc.radius)"
RECURSIVE DrawCircles(_, _)
DrawCircles(wp, scs) ==
    IF scs = <<>> THEN wp
    ELSE IF Head(scs).is_hole THEN DrawCircles(wp, Tail(scs))
    ELSE DrawCircles(WpCircle(wp, Head(scs).radius), Tail(scs))

RECURSIVE CircleCalls(_)
CircleCalls(scs) ==
    IF scs = <<>> THEN <<>>
    ELSE IF Head(scs).is_hole THEN CircleCalls(Tail(scs))
    ELSE <<Call("circle", <<Head(scs).radius>>)>> \o CircleCalls(Tail(scs))

\* The hole tool extruded to twice the length.
HoleCircleToolDoubleLength(sc, ex) ==
    WpExtrude(WpCircle(Workplane("XY"), sc.radius), ex.length * 2, FALSE)

\* The tool of one is_hole circle: its own sketch, extruded like the base.
HoleCircleTool(sc, ex) ==
    WpExtrude(WpCircle(Workplane("XY"), sc.radius), ex.length, FALSE)

\* The tool of one ThroughHole and the kernel calls that build it.
ThroughHolePlane(hole) ==
    IF hole.axis = "z" THEN "XY" ELSE IF hole.axis = "x" THEN "YZ" ELSE "XZ"

ThroughHoleCenter(hole) ==
    LET cx == hole.center[1]
        cy == hole.center[2]
        cz == hole.center[3]
    IN IF hole.axis = "z" THEN <<cx, cy>>
       ELSE IF hole.axis = "x" THEN <<cz, cy>>
       ELSE <<cx, cz>>

ThroughHoleLength(hole) == hole.depth * 2

ThroughHoleTool(hole) ==
    LET c == ThroughHoleCenter(hole)
    IN WpExtrude(WpCircle(WpCenter(Workplane(ThroughHolePlane(hole)), c[1], c[2]),
                          hole.radius),
                 ThroughHoleLength(hole), TRUE)

\* The tool of one CutBox.
CutBoxTool(cb) ==
    Translate(WpBox(WpCenter(Workplane("XY"), cb.center[1], cb.center[2]),
                    cb.width, cb.depth, cb.height, <<TRUE, TRUE, TRUE>>),
              <<0, 0, cb.center[3]>>)

\* Where control goes when a loop is left: the next loop that has work.
AfterCutBoxes(ths) == IF ths # <<>> THEN "throughholes" ELSE "return"

\* The two modifier loops in the other order.
AfterHolesThroughFirst(cbs, ths) ==
    IF ths # <<>> THEN "throughholes" ELSE IF cbs # <<>> THEN "cutboxes" ELSE "return"

AfterHoles(cbs, ths) == IF cbs # <<>> THEN "cutboxes" ELSE AfterCutBoxes(ths)
AfterBase(bb, scs, cbs, ths) ==
    IF bb = None /\ scs # <<>> THEN "holes" ELSE AfterHoles(cbs, ths)

\* ----- build_solid: steps ---------------------------------------------------
Fail(kind) == pc' = "failed" /\ err' = kind

\* Entry with the buckets kept from the previous invocation (buckets held
\* on the engine instance instead of in locals).
BuildStartStaleBuckets ==
    /\ pc = "start"
    /\ solid' = None
    /\ calls' = <<>>
    /\ i' = 1
    /\ IF ops = <<>> THEN Fail("EmptySpec") ELSE pc' = "classify" /\ err' = "none"
    /\ UNCHANGED <<ops, sketch_circles, extrude_op, base_box, cut_boxes,
                   through_holes, histVars, drawVars, jobVars>>

\* Entry: the empty check and the fresh locals.
BuildStart ==
    /\ pc = "start"
    /\ sketch_circles' = <<>>
    /\ extrude_op' = None
    /\ base_box' = None
    /\ cut_boxes' = <<>>
    /\ through_holes' = <<>>
    /\ solid' = None
    /\ calls' = <<>>
    /\ i' = 1
    /\ IF ops = <<>> THEN Fail("EmptySpec") ELSE pc' = "classify" /\ err' = "none"
    /\ UNCHANGED <<ops, histVars, drawVars, jobVars>>

\* One iteration of the classification loop, and the loop exit after the last.
Classify ==
    /\ pc = "classify"
    /\ i <= Len(ops)
    /\ LET op == ops[i]
           e == ClassifyError(op, extrude_op, base_box)
       IN IF e # "none"
          THEN /\ Fail(e)
               /\ UNCHANGED <<i, sketch_circles, extrude_op, base_box, cut_boxes,
                              through_holes>>
          ELSE /\ sketch_circles' = IF op.type = "SketchCircle"
                                    THEN Append(sketch_circles, op) ELSE sketch_circles
               /\ extrude_op' = IF op.type = "Extrude" THEN Some(op) ELSE extrude_op
               /\ base_box' = IF op.type = "BaseBox" THEN Some(op) ELSE base_box
               /\ cut_boxes' = IF op.type = "CutBox"
                               THEN Append(cut_boxes, op) ELSE cut_boxes
               /\ through_holes' = IF op.type = "ThroughHole"
                                   THEN Append(through_holes, op) ELSE through_holes
               /\ i' = i + 1
               /\ pc' = IF i = Len(ops) THEN "style" ELSE "classify"
               /\ err' = err
    /\ UNCHANGED <<ops, solid, calls, histVars, drawVars, jobVars>>

\* The two base-style checks.
StyleCheck ==
    /\ pc = "style"
    /\ IF MixedBaseStyle(base_box, sketch_circles, extrude_op)
       THEN Fail("MixedBaseStyle")
       ELSE IF NoBaseStyle(base_box, extrude_op)
       THEN Fail("NoBaseStyle")
       ELSE pc' = "base" /\ err' = err
    /\ UNCHANGED <<ops, i, sketch_circles, extrude_op, base_box, cut_boxes,
                   through_holes, solid, calls, histVars, drawVars, jobVars>>

\* The BaseBox branch of "Build the base solid".
BoxBase ==
    LET bb == base_box[1]
        centered == <<bb.centered_xy, bb.centered_xy, bb.centered_z>>
    IN /\ solid' = Some(NewSolid(WpBox(Workplane("XY"), bb.width, bb.depth,
                                       bb.height, centered)))
       /\ calls' = calls \o <<Call("Workplane", <<"XY">>),
                              Call("box", <<bb.width, bb.depth, bb.height, centered>>)>>
       /\ pc' = AfterBase(base_box, sketch_circles, cut_boxes, through_holes)
       /\ err' = err

\* The sketch branch with the guard misplaced after the extrusion.
SketchBaseGuardAfterExtrude ==
    LET wp == DrawCircles(Workplane("XY"), sketch_circles)
        drawn == <<Call("Workplane", <<"XY">>)>> \o CircleCalls(sketch_circles)
    IN /\ calls' = calls \o drawn \o <<Call("extrude", <<extrude_op[1].length, FALSE>>)>>
       /\ IF NoPositiveGeometry(wp)
          THEN Fail("NoPositiveGeometry") /\ solid' = solid
          ELSE /\ solid' = Some(NewSolid(WpExtrude(wp, extrude_op[1].length, FALSE)))
               /\ pc' = AfterBase(base_box, sketch_circles, cut_boxes, through_holes)
               /\ err' = err

\* The sketch branch: the non-hole circles drawn into one profile, the
\* positive-geometry guard, the extrusion.
SketchBase ==
    LET wp == DrawCircles(Workplane("XY"), sketch_circles)
        drawn == <<Call("Workplane", <<"XY">>)>> \o CircleCalls(sketch_circles)
    IN IF NoPositiveGeometry(wp)
       THEN /\ Fail("NoPositiveGeometry")
            /\ calls' = calls \o drawn
            /\ solid' = solid
       ELSE /\ solid' = Some(NewSolid(WpExtrude(wp, extrude_op[1].length, FALSE)))
            /\ calls' = calls \o drawn
                          \o <<Call("extrude", <<extrude_op[1].length, FALSE>>)>>
            /\ pc' = AfterBase(base_box, sketch_circles, cut_boxes, through_holes)
            /\ err' = err

\* "Build the base solid".
BuildBase ==
    /\ pc = "base"
    /\ IF base_box # None THEN BoxBase ELSE SketchBase
    /\ i' = 1
    /\ UNCHANGED <<ops, sketch_circles, extrude_op, base_box, cut_boxes,
                   through_holes, histVars, drawVars, jobVars>>

\* One iteration of "cut hole circles as separate extruded tools".
CutHoleCircle ==
    /\ pc = "holes"
    /\ i <= Len(sketch_circles)
    /\ LET sc == sketch_circles[i]
           hole == HoleCircleTool(sc, extrude_op[1])
       IN IF sc.is_hole
          THEN /\ solid' = Some(Cut(solid[1], hole))
               /\ calls' = calls \o <<Call("Workplane", <<"XY">>),
                                      Call("circle", <<sc.radius>>),
                                      Call("extrude", <<extrude_op[1].length, FALSE>>),
                                      Call("cut", <<hole>>)>>
          ELSE UNCHANGED <<solid, calls>>
    /\ i' = IF i = Len(sketch_circles) THEN 1 ELSE i + 1
    /\ pc' = IF i = Len(sketch_circles) THEN AfterHoles(cut_boxes, through_holes)
             ELSE "holes"
    /\ UNCHANGED <<ops, sketch_circles, extrude_op, base_box, cut_boxes,
                   through_holes, err, histVars, drawVars, jobVars>>

\* One iteration of the CutBox loop.
CutBoxStep ==
    /\ pc = "cutboxes"
    /\ i <= Len(cut_boxes)
    /\ LET cb == cut_boxes[i]
           tool == CutBoxTool(cb)
       IN /\ solid' = Some(Cut(solid[1], tool))
          /\ calls' = calls \o <<Call("Workplane", <<"XY">>),
                                 Call("center", <<cb.center[1], cb.center[2]>>),
                                 Call("box", <<cb.width, cb.depth, cb.height,
                                               <<TRUE, TRUE, TRUE>>>>),
                                 Call("translate", <<0, 0, cb.center[3]>>),
                                 Call("cut", <<tool>>)>>
    /\ i' = IF i = Len(cut_boxes) THEN 1 ELSE i + 1
    /\ pc' = IF i = Len(cut_boxes) THEN AfterCutBoxes(through_holes) ELSE "cutboxes"
    /\ UNCHANGED <<ops, sketch_circles, extrude_op, base_box, cut_boxes,
                   through_holes, err, histVars, drawVars, jobVars>>

\* One iteration of the ThroughHole loop.
ThroughHoleStep ==
    /\ pc = "throughholes"
    /\ i <= Len(through_holes)
    /\ LET hole == through_holes[i]
           c == ThroughHoleCenter(hole)
           tool == ThroughHoleTool(hole)
       IN /\ solid' = Some(Cut(solid[1], tool))
          /\ calls' = calls \o <<Call("Workplane", <<ThroughHolePlane(hole)>>),
                                 Call("center", c),
                                 Call("circle", <<hole.radius>>),
                                 Call("extrude", <<ThroughHoleLength(hole), TRUE>>),
                                 Call("cut", <<tool>>)>>
    /\ i' = IF i = Len(through_holes) THEN 1 ELSE i + 1
    /\ pc' = IF i = Len(through_holes) THEN "return" ELSE "throughholes"
    /\ UNCHANGED <<ops, sketch_circles, extrude_op, base_box, cut_boxes,
                   through_holes, err, histVars, drawVars, jobVars>>

\* "return solid"
Return ==
    /\ pc = "return"
    /\ pc' = "done"
    /\ UNCHANGED <<ops, i, sketch_circles, extrude_op, base_box, cut_boxes,
                   through_holes, solid, calls, err, histVars, drawVars, jobVars>>

BuildSolid ==
    \/ BuildStart
    \/ Classify
    \/ StyleCheck
    \/ BuildBase
    \/ CutHoleCircle
    \/ CutBoxStep
    \/ ThroughHoleStep
    \/ Return

\* What an invocation hands back: the error, or the solid and the calls made.
Outcome == [err |-> err, calls |-> calls, solid |-> solid]

vars == <<solidVars, histVars, drawVars, jobVars>>

InitLocals ==
    /\ pc = "start"
    /\ i = 1
    /\ sketch_circles = <<>>
    /\ extrude_op = None
    /\ base_box = None
    /\ cut_boxes = <<>>
    /\ through_holes = <<>>
    /\ solid = None
    /\ calls = <<>>
    /\ err = "none"
    /\ runs = 1
    /\ refOps = ops
    /\ refOutcome = None
    /\ views = <<>>
    /\ dimensions = <<>>
    /\ output_svg = None
    /\ gpc = "idle"
    /\ gi = 1
    /\ doc = None
    /\ objects = <<>>
    /\ page_views = <<>>
    /\ view_objects = <<>>
    /\ exports = <<>>
    /\ gerr = "none"
    /\ output_pdf = OutputPdf
    /\ job = None
    /\ jpc = "nojob"
    /\ ji = 1
    /\ decoded = <<>>
    /\ solid_spec = None
    /\ drawing_spec = None
    /\ jerr = "none"

\* One build_solid invocation on a fresh engine, for every SolidSpec.
Init ==
    /\ ops \in SolidSpecs
    /\ InitLocals

Next == BuildSolid

Spec == Init /\ [][Next]_vars

\* ----- repeated invocations on one GeometryEngine instance -------------------
\* The caller invokes build_solid again once the previous invocation has
\* returned or raised: on the first spec again, or on one of the test specs.
Reinvoke ==
    /\ pc \in {"done", "failed"}
    /\ runs < MaxRuns
    /\ runs' = runs + 1
    /\ refOutcome' = IF runs = 1 THEN Some(Outcome) ELSE refOutcome
    /\ \E s \in {refOps, RingSpec, BlockSpec} : ops' = s
    /\ pc' = "start"
    /\ UNCHANGED <<i, sketch_circles, extrude_op, base_box, cut_boxes, through_holes,
                   solid, calls, err, refOps, drawVars, jobVars>>

InitRepeat ==
    /\ ops \in RepeatSpecs
    /\ InitLocals

NextRepeat == BuildSolid \/ Reinvoke

SpecRepeat == InitRepeat /\ [][NextRepeat]_vars

\* ----- generate_drawing --------------------------------------------------------
\* Indices of the objects every document starts with.
BodyIndex == 1
TemplateIndex == 3

\* "view_objects.get(view_id)": the entry, or None when the id is absent.
DictGet(dict, key) == IF key \in DOMAIN dict THEN Some(dict[key]) ELSE None

\* A dictionary that keeps the first entry of a key.
DictSetKeepFirst(dict, key, value) ==
    [k \in DOMAIN dict \cup {key} |-> IF k \in DOMAIN dict THEN dict[k] ELSE value]

\* "view_objects[id] = view": a later entry replaces an earlier one.
DictSet(dict, key, value) ==
    [k \in DOMAIN dict \cup {key} |-> IF k = key THEN value ELSE dict[k]]

\* "if view_obj is None" left unchecked.
UnknownViewUnchecked(view_obj) == FALSE

\* "if view_obj is None"
UnknownView(view_obj) == view_obj = None

\* SectionNormal assigned whenever a section_normal is given.
SetsSectionNormalAlways(vspec) == vspec.section_normal # None

\* "if vspec.is_section: ... if vspec.section_normal is not None"
SetsSectionNormal(vspec) == vspec.is_section /\ vspec.section_normal # None

\* The TechDraw::DrawViewPart object of one ViewSpec; an attribute the code
\* does not assign is None (left to the renderer's default).
ViewObject(vspec) ==
    [type |-> "TechDraw::DrawViewPart", name |-> vspec.id,
     Source |-> <<BodyIndex>>,
     Direction |-> vspec.direction,
     Scale |-> vspec.scale,
     Section |-> IF vspec.is_section THEN Some(TRUE) ELSE None,
     SectionNormal |-> IF SetsSectionNormal(vspec) THEN vspec.section_normal ELSE None]

\* The mapping with the lower-cased kind as the fallback.
DimensionTypeFallbackLowered(kind) ==
    LET kind_lower == Lower(kind)
    IN IF kind_lower \in {StrLinear, StrDistance} THEN TypeDistance
       ELSE IF kind_lower \in {StrDiameter, StrRadial, StrRadius} THEN TypeDiameter
       ELSE kind_lower

\* "Basic mapping from our abstract 'kind' to TechDraw's 'Type'".
DimensionType(kind) ==
    LET kind_lower == Lower(kind)
    IN IF kind_lower \in {StrLinear, StrDistance} THEN TypeDistance
       ELSE IF kind_lower \in {StrDiameter, StrRadial, StrRadius} THEN TypeDiameter
       ELSE kind

\* The TechDraw::DrawViewDimension object of one DimensionSpec on the view
\* that the lookup returned.
DimensionObject(dspec, view_obj) ==
    [type |-> "TechDraw::DrawViewDimension", name |-> <<"Dim_", dspec.view_id>>,
     Type |-> DimensionType(dspec.kind),
     References2D |-> [k \in 1..Len(dspec.edges) |-> <<view_obj, dspec.edges[k]>>],
     FormatSpec |-> dspec.label]

AfterViews(dims) == IF dims # <<>> THEN "dims" ELSE "export"
AfterSetup(vs, dims) == IF vs # <<>> THEN "views" ELSE AfterViews(dims)

\* Entry, on the solid build_solid returned and the given spec and paths:
\* the document, the body, the page and its template, the empty lookup table.
GenSetupOn(vs, ds, pdf, svg) ==
    /\ views' = vs
    /\ dimensions' = ds
    /\ output_pdf' = pdf
    /\ output_svg' = svg
    /\ gpc' = AfterSetup(vs, ds)
    /\ doc' = Some(PageTitle)
    /\ objects' = <<[type |-> "Part::Feature", name |-> "Body", Shape |-> solid[1]],
                    [type |-> "TechDraw::DrawPage", name |-> "Page",
                     Template |-> TemplateIndex],
                    [type |-> "TechDraw::DrawSVGTemplate", name |-> "Template",
                     Template |-> TemplatePath]>>
    /\ view_objects' = <<>>
    /\ gi' = 1
    /\ UNCHANGED <<solidVars, histVars, page_views, exports, gerr>>

\* generate_drawing called directly, for every DrawingSpec.
GenSetup ==
    /\ gpc = "idle"
    /\ pc = "done"
    /\ \E vs \in SeqsUpTo(ViewSpecs, MaxViews), ds \in SeqsUpTo(DimensionSpecs, MaxDims),
          svg \in {None, Some(OutputSvg)} :
          GenSetupOn(vs, ds, OutputPdf, svg)
    /\ UNCHANGED jobVars

\* One iteration of "create all views and remember them by ID".
GenView ==
    /\ gpc = "views"
    /\ gi <= Len(views)
    /\ LET vspec == views[gi]
           index == Len(objects) + 1
       IN /\ objects' = Append(objects, ViewObject(vspec))
          /\ page_views' = Append(page_views, index)
          /\ view_objects' = DictSet(view_objects, vspec.id, index)
    /\ gi' = IF gi = Len(views) THEN 1 ELSE gi + 1
    /\ gpc' = IF gi = Len(views) THEN AfterViews(dimensions) ELSE "views"
    /\ UNCHANGED <<solidVars, histVars, jobVars, views, dimensions, output_pdf,
                   output_svg, doc, exports, gerr>>

\* One iteration of "add dimensions".
GenDimension ==
    /\ gpc = "dims"
    /\ gi <= Len(dimensions)
    /\ LET dspec == dimensions[gi]
           view_obj == DictGet(view_objects, dspec.view_id)
       IN IF UnknownView(view_obj)
          THEN /\ gpc' = "gfailed"
               /\ gerr' = "UnknownViewReference"
               /\ UNCHANGED <<gi, objects, page_views>>
          ELSE /\ objects' = Append(objects, DimensionObject(dspec, view_obj))
               /\ page_views' = Append(page_views, Len(objects) + 1)
               /\ gi' = IF gi = Len(dimensions) THEN 1 ELSE gi + 1
               /\ gpc' = IF gi = Len(dimensions) THEN "export" ELSE "dims"
               /\ gerr' = gerr
    /\ UNCHANGED <<solidVars, histVars, jobVars, views, dimensions, output_pdf,
                   output_svg, doc, view_objects, exports>>

\* "Export": the PDF, and the SVG when a path was given.
GenExport ==
    /\ gpc = "export"
    /\ exports' = <<Call("exportPageAsPdf", <<output_pdf>>)>>
                    \o (IF output_svg # None
                        THEN <<Call("exportPageAsSvg", output_svg)>> ELSE <<>>)
    /\ gpc' = "gdone"
    /\ UNCHANGED <<solidVars, histVars, jobVars, views, dimensions, output_pdf,
                   output_svg, gi, doc, objects, page_views, view_objects, gerr>>

GenerateDrawing ==
    \/ GenSetup
    \/ GenView
    \/ GenDimension
    \/ GenExport

\* generate_drawing on the solids of the two test specs, for every DrawingSpec.
InitDrawing ==
    /\ ops \in {RingSpec, BlockSpec}
    /\ InitLocals

NextDrawing == BuildSolid \/ GenerateDrawing

SpecDrawing == InitDrawing /\ [][NextDrawing]_vars

\* ----- run_job and the JSON decoders (job_runner.py) ----------------------------
\* A JSON object is a record; a key the JSON leaves out is not in its domain.
\* "obj.get(key, default)"
JsonGet(obj, key, default) == IF key \in DOMAIN obj THEN obj[key] ELSE default

\* "op.get('type')"; a missing type reads as Python's None.
JsonType(op) == JsonGet(op, "type", "None")

\* The operation entries the jobs are drawn from: the five supported types,
\* with and without their optional keys, an unsupported type, and an entry
\* without a type.
JsonOperations ==
    { [type |-> "SketchCircle", radius |-> 2],
      [type |-> "SketchCircle", radius |-> 1, is_hole |-> TRUE],
      [type |-> "Extrude", length |-> 3],
      [type |-> "BaseBox", width |-> 4, depth |-> 5, height |-> 6],
      [type |-> "CutBox", width |-> 1, depth |-> 1, height |-> 1,
       center |-> <<1, 2, 3>>],
      [type |-> "ThroughHole", radius |-> 1, depth |-> 1],
      [type |-> "ThroughHole", radius |-> 1, depth |-> 1, axis |-> "x",
       center |-> <<4, 2, 5>>],
      [type |-> "Chamfer", size |-> 1],
      [size |-> 1] }

\* The drawing objects the jobs are drawn from: no views and no dimensions,
\* a section view with a dimension on it, a view with a dangling dimension.
JsonDrawings ==
    { [page_title |-> PageTitle, template_path |-> TemplatePath],
      [page_title |-> PageTitle, template_path |-> TemplatePath,
       views |-> <<[id |-> "v1", direction |-> <<0, 0, 1>>, is_section |-> TRUE]>>,
       dimensions |-> <<[view_id |-> "v1", kind |-> StrLinear, label |-> "L1",
                         edges |-> <<"Edge1", "Edge2">>]>>],
      [page_title |-> PageTitle, template_path |-> TemplatePath,
       views |-> <<[id |-> "v1", direction |-> <<0, 0, 1>>,
                    section_normal |-> <<1, 0, 0>>, scale |-> 2]>>,
       dimensions |-> <<[view_id |-> "v9", kind |-> StrLinear, label |-> "L9"]>>] }

Job(list, d, with_svg) ==
    IF with_svg
    THEN [solid |-> [id |-> "part", operations |-> list], drawing |-> d,
          output_pdf |-> OutputPdf, output_svg |-> OutputSvg]
    ELSE [solid |-> [id |-> "part", operations |-> list], drawing |-> d,
          output_pdf |-> OutputPdf]

\* The type strings the elif chain of _solid_spec_from_dict knows.
SupportedTypes == {"SketchCircle", "Extrude", "BaseBox", "CutBox", "ThroughHole"}

\* The dataclass built for an entry of a supported type; float() keeps the
\* value of a JSON number and bool() that of a JSON boolean.
DecodeEntry(op) ==
    LET op_type == JsonType(op)
    IN IF op_type = "SketchCircle"
       THEN SketchCircle(op.radius, JsonGet(op, "is_hole", FALSE))
       ELSE IF op_type = "Extrude"
       THEN Extrude(op.length)
       ELSE IF op_type = "BaseBox"
       THEN BaseBox(op.width, op.depth, op.height,
                    JsonGet(op, "centered_xy", TRUE), JsonGet(op, "centered_z", FALSE))
       ELSE IF op_type = "CutBox"
       THEN CutBox(op.width, op.depth, op.height, op.center)
       ELSE ThroughHole(op.radius, op.depth, JsonGet(op, "axis", "z"),
                        JsonGet(op, "center", <<0, 0, 0>>))

\* One iteration that skips an entry of an unsupported type.
DecodeStepSkipUnsupported(acc, op) ==
    IF JsonType(op) \notin SupportedTypes
    THEN [err |-> "none", ops |-> acc]
    ELSE [err |-> "none", ops |-> Append(acc, DecodeEntry(op))]

\* One iteration of the loop of _solid_spec_from_dict on the list so far.
DecodeStep(acc, op) ==
    IF JsonType(op) \notin SupportedTypes
    THEN [err |-> "UnsupportedOperationType", ops |-> acc]
    ELSE [err |-> "none", ops |-> Append(acc, DecodeEntry(op))]

\* The ViewSpec and DimensionSpec of _drawing_spec_from_dict.
DecodeView(v) ==
    ViewSpec(v.id, v.direction, JsonGet(v, "is_section", FALSE),
             IF "section_normal" \in DOMAIN v THEN Some(v.section_normal) ELSE None,
             IF "scale" \in DOMAIN v THEN Some(v.scale) ELSE None)

DecodeDimension(d) ==
    DimensionSpec(d.view_id, d.kind, d.label, JsonGet(d, "edges", <<>>))

DrawingSpecFromDict(data) ==
    LET vs == JsonGet(data, "views", <<>>)
        ds == JsonGet(data, "dimensions", <<>>)
    IN [page_title |-> data.page_title, template_path |-> data.template_path,
        views |-> [k \in 1..Len(vs) |-> DecodeView(vs[k])],
        dimensions |-> [k \in 1..Len(ds) |-> DecodeDimension(ds[k])]]

\* "Path(...).resolve()": the path made absolute under the working directory.
Resolve(path) == <<"/cwd", path>>

\* One iteration of the loop of _solid_spec_from_dict.
DecodeOp ==
    /\ jpc = "decode_solid"
    /\ ji <= Len(job[1].solid.operations)
    /\ LET r == DecodeStep(decoded, job[1].solid.operations[ji])
       IN IF r.err # "none"
          THEN jpc' = "jfailed" /\ jerr' = r.err /\ UNCHANGED <<ji, decoded>>
          ELSE jpc' = jpc /\ jerr' = jerr /\ ji' = ji + 1 /\ decoded' = r.ops
    /\ UNCHANGED <<solidVars, histVars, drawVars, job, solid_spec, drawing_spec>>

\* "return SolidSpec(id=..., operations=ops)"
DecodeSolidReturn ==
    /\ jpc = "decode_solid"
    /\ ji > Len(job[1].solid.operations)
    /\ solid_spec' = Some([id |-> job[1].solid.id, operations |-> decoded])
    /\ jpc' = "decode_drawing"
    /\ UNCHANGED <<solidVars, histVars, drawVars, job, ji, decoded, drawing_spec, jerr>>

\* "drawing_spec = _drawing_spec_from_dict(job['drawing'])"
DecodeDrawing ==
    /\ jpc = "decode_drawing"
    /\ drawing_spec' = Some(DrawingSpecFromDict(job[1].drawing))
    /\ jpc' = "call_build"
    /\ UNCHANGED <<solidVars, histVars, drawVars, job, ji, decoded, solid_spec, jerr>>

\* "engine = GeometryEngine(); solid = engine.build_solid(solid_spec)"
JobBuildSolid ==
    /\ jpc = "call_build"
    /\ pc = "idle"
    /\ ops' = solid_spec[1].operations
    /\ pc' = "start"
    /\ jpc' = "in_build"
    /\ UNCHANGED <<i, sketch_circles, extrude_op, base_box, cut_boxes, through_holes,
                   solid, calls, err, histVars, drawVars, job, ji, decoded,
                   solid_spec, drawing_spec, jerr>>

\* The output paths and the call of generate_drawing, once build_solid has
\* returned.
JobGenerateDrawing ==
    /\ jpc = "in_build"
    /\ pc = "done"
    /\ gpc = "idle"
    /\ GenSetupOn(drawing_spec[1].views, drawing_spec[1].dimensions,
                  Resolve(job[1].output_pdf),
                  IF "output_svg" \in DOMAIN job[1]
                  THEN Some(Resolve(job[1].output_svg)) ELSE None)
    /\ jpc' = "in_draw"
    /\ UNCHANGED <<job, ji, decoded, solid_spec, drawing_spec, jerr>>

\* "return {...}", once generate_drawing has returned.
JobReturn ==
    /\ jpc = "in_draw"
    /\ gpc = "gdone"
    /\ jpc' = "jdone"
    /\ UNCHANGED <<solidVars, histVars, drawVars, job, ji, decoded, solid_spec,
                   drawing_spec, jerr>>

\* run_job on every job; nothing of build_solid or generate_drawing has
\* started.
InitJob ==
    /\ \E list \in SeqsUpTo(JsonOperations, MaxJobOps), d \in JsonDrawings,
          with_svg \in BOOLEAN :
            job = Some(Job(list, d, with_svg))
    /\ jpc = "decode_solid"
    /\ ji = 1
    /\ decoded = <<>>
    /\ solid_spec = None
    /\ drawing_spec = None
    /\ jerr = "none"
    /\ ops = <<>>
    /\ pc = "idle"
    /\ i = 1
    /\ sketch_circles = <<>>
    /\ extrude_op = None
    /\ base_box = None
    /\ cut_boxes = <<>>
    /\ through_holes = <<>>
    /\ solid = None
    /\ calls = <<>>
    /\ err = "none"
    /\ runs = 1
    /\ refOps = <<>>
    /\ refOutcome = None
    /\ views = <<>>
    /\ dimensions = <<>>
    /\ output_svg = None
    /\ output_pdf = OutputPdf
    /\ gpc = "idle"
    /\ gi = 1
    /\ doc = None
    /\ objects = <<>>
    /\ page_views = <<>>
    /\ view_objects = <<>>
    /\ exports = <<>>
    /\ gerr = "none"

NextJob ==
    \/ DecodeOp
    \/ DecodeSolidReturn
    \/ DecodeDrawing
    \/ JobBuildSolid
    \/ BuildSolid
    \/ JobGenerateDrawing
    \/ GenView
    \/ GenDimension
    \/ GenExport
    \/ JobReturn

SpecJob == InitJob /\ [][NextJob]_vars

\* ----- properties of build_solid ----------------------------------------------
\* Facts about the input list, stated on spec.operations alone.
OfType(list, type) == SelectSeq(list, LAMBDA op : op.type = type)

Has(list, type) == OfType(list, type) # <<>>

ParamsValid(op) ==
    CASE op.type = "SketchCircle" -> op.radius > 0
      [] op.type = "Extrude" -> op.length > 0
      [] op.type = "BaseBox" -> op.width > 0 /\ op.depth > 0 /\ op.height > 0
      [] op.type = "CutBox" -> op.width > 0 /\ op.depth > 0 /\ op.height > 0
      [] op.type = "ThroughHole" ->
           op.radius > 0 /\ op.depth > 0 /\ op.axis \in {"x", "y", "z"}
      [] OTHER -> FALSE

AllParamsValid(list) == \A k \in 1..Len(list) : ParamsValid(list[k])

HasPositiveCircle(list) ==
    \E k \in 1..Len(list) : list[k].type = "SketchCircle" /\ ~list[k].is_hole

ValidationErrors ==
    {"EmptySpec", "InvalidOperationParameter", "DuplicateExtrude", "DuplicateBaseBox",
     "UnsupportedOperationType", "MixedBaseStyle", "NoBaseStyle", "NoPositiveGeometry"}

ConstructionCalls == {"box", "extrude", "cut", "translate"}

Issued(fns) == \E k \in 1..Len(calls) : calls[k].fn \in fns

\* Positions of build_solid at which validation is still in progress.
Validating == {"start", "classify", "style"}

\* C1: whenever build_solid has raised a validation error, no box, extrude,
\* cut or translate call has been issued and no solid exists.
C1_ValidationPrecedesConstruction ==
    err # "none" =>
        /\ pc = "failed"
        /\ err \in ValidationErrors
        /\ ~Issued(ConstructionCalls)
        /\ solid = None

\* C1 witness: the latest validation failure, raised after the sketch work
\* plane has been created.
C1_Witness ==
    /\ pc = "failed"
    /\ err = "NoPositiveGeometry"
    /\ calls # <<>>

\* C2: a list holding a BaseBox together with a SketchCircle or an Extrude
\* never gets past validation, and the run ends in a validation error.
C2_MixedAlwaysFails ==
    (Has(ops, "BaseBox") /\ (Has(ops, "SketchCircle") \/ Has(ops, "Extrude"))) =>
        /\ pc \in Validating \cup {"failed"}
        /\ pc = "failed" => err \in ValidationErrors
        /\ ~Issued(ConstructionCalls)

\* C2 witness: the BaseBox comes last, after a sketch operation and another
\* operation, and the run failed on the style check.
C2_Witness ==
    /\ pc = "failed"
    /\ err = "MixedBaseStyle"
    /\ Len(ops) = 3
    /\ ops[3].type = "BaseBox"
    /\ ops[1].type \in {"SketchCircle", "Extrude"}
    /\ ops[2].type \in {"CutBox", "ThroughHole"}

\* C3: a list holding two or more Extrude operations, or two or more BaseBox
\* operations, never gets past validation, and the run ends in a validation error.
C3_DuplicatesAlwaysFail ==
    (Len(OfType(ops, "Extrude")) >= 2 \/ Len(OfType(ops, "BaseBox")) >= 2) =>
        /\ pc \in Validating \cup {"failed"}
        /\ pc = "failed" => err \in ValidationErrors
        /\ ~Issued(ConstructionCalls)

\* C3 witness: two Extrude operations separated by another operation.
C3_Witness ==
    /\ pc = "failed"
    /\ err = "DuplicateExtrude"
    /\ Len(ops) = 3
    /\ ops[1].type = "Extrude"
    /\ ops[2].type # "Extrude"
    /\ ops[3].type = "Extrude"

\* A sketch-style list with nothing to extrude: no BaseBox, exactly one
\* Extrude, of positive length, and no SketchCircle with is_hole = false.
SketchWithoutPositive(list) ==
    /\ ~Has(list, "BaseBox")
    /\ Len(OfType(list, "Extrude")) = 1
    /\ OfType(list, "Extrude")[1].length > 0
    /\ ~HasPositiveCircle(list)

\* C4 as stated: every such list of the five operation types ends in
\* NoPositiveGeometry, without extrusion.
C4_AsStated ==
    (SketchWithoutPositive(ops) /\ ~Has(ops, "Other") /\ pc \in {"done", "failed"}) =>
        /\ err = "NoPositiveGeometry"
        /\ ~Issued({"extrude"})

\* C4 (amended): every such list all of whose operations pass their parameter
\* checks ends in NoPositiveGeometry, and no extrusion is performed.
C4_NoPositiveGeometry ==
    (SketchWithoutPositive(ops) /\ AllParamsValid(ops)) =>
        /\ pc \in Validating \cup {"base", "failed"}
        /\ pc = "failed" => err = "NoPositiveGeometry"
        /\ ~Issued({"extrude"})
        /\ solid = None

\* C4 witness: a failed run whose circles are all holes.
C4_Witness ==
    /\ pc = "failed"
    /\ err = "NoPositiveGeometry"
    /\ sketch_circles # <<>>
    /\ \A k \in 1..Len(sketch_circles) : sketch_circles[k].is_hole

\* Geometry of a finished tool: the axis it runs along, and its extent
\* along that axis.
AxisIndex(axis) == IF axis = "x" THEN 1 ELSE IF axis = "y" THEN 2 ELSE 3

ToolAxisIndex(tool) ==
    CHOOSE a \in 1..3 : ZDir(tool.plane)[a] # 0

ToolMin(tool) ==
    LET a == ToolAxisIndex(tool)
        n == ZDir(tool.plane)[a]
    IN tool.wires[1].at[a] + (IF n > 0 THEN tool.lo ELSE 0 - tool.hi)

ToolMax(tool) ==
    LET a == ToolAxisIndex(tool)
        n == ZDir(tool.plane)[a]
    IN tool.wires[1].at[a] + (IF n > 0 THEN tool.hi ELSE 0 - tool.lo)

\* The tool cut for the k-th ThroughHole of the list (the ThroughHole cuts
\* are the last cuts of a finished solid).
ThroughHoleCut(k) ==
    LET cuts == solid[1].cuts
    IN cuts[Len(cuts) - Len(OfType(ops, "ThroughHole")) + k]

\* C7 as stated: the tool of every ThroughHole runs along the stated axis, is
\* centred at the given centre in all three coordinates, and reaches at
\* least depth on each side of the centre along the axis.
C7_AsStated ==
    pc = "done" =>
        \A k \in 1..Len(OfType(ops, "ThroughHole")) :
            LET hole == OfType(ops, "ThroughHole")[k]
                tool == ThroughHoleCut(k)
                a == AxisIndex(hole.axis)
                c == hole.center
            IN /\ ToolAxisIndex(tool) = a
               /\ \A j \in (1..3) \ {a} : tool.wires[1].at[j] = c[j]
               /\ ToolMin(tool) + ToolMax(tool) = 2 * c[a]
               /\ ToolMin(tool) <= c[a] - hole.depth
               /\ ToolMax(tool) >= c[a] + hole.depth
               /\ ToolMax(tool) - ToolMin(tool) >= 2 * hole.depth

\* Two outcomes agree: the same error, the same calls with the same
\* arguments, the same solid.
SameOutcome(a, b) ==
    /\ a.err = b.err
    /\ Len(a.calls) = Len(b.calls)
    /\ \A k \in 1..Len(a.calls) : a.calls[k].fn = b.calls[k].fn
    /\ a.calls = b.calls
    /\ a.solid = b.solid

\* C8: every later invocation on the spec of the first invocation ends in the
\* outcome of the first invocation, whatever was built in between.
C8_Deterministic ==
    (runs > 1 /\ pc \in {"done", "failed"} /\ ops = refOps) =>
        SameOutcome(Outcome, refOutcome[1])

\* C8 witness: a third invocation that repeated the first one and built a
\* solid with cuts.
C8_Witness ==
    /\ runs >= 3
    /\ pc = "done"
    /\ ops = refOps
    /\ solid[1].cuts # <<>>

\* A grammatical list: non-empty, every parameter check passed, and exactly
\* one base style.
Grammatical(list) ==
    /\ list # <<>>
    /\ AllParamsValid(list)
    /\ \/ /\ Len(OfType(list, "BaseBox")) = 1
          /\ ~Has(list, "SketchCircle")
          /\ ~Has(list, "Extrude")
       \/ /\ Len(OfType(list, "Extrude")) = 1
          /\ HasPositiveCircle(list)
          /\ ~Has(list, "BaseBox")

\* C9: on a grammatical list build_solid raises no error, and once it has
\* returned a solid exists.
C9_GrammaticalAccepted ==
    Grammatical(ops) =>
        /\ pc # "failed"
        /\ err = "none"
        /\ pc = "done" => solid # None

\* C9 witness: a box with a CutBox and a ThroughHole has been built.
C9_Witness ==
    /\ pc = "done"
    /\ Grammatical(ops)
    /\ Has(ops, "BaseBox")
    /\ Has(ops, "CutBox")
    /\ Has(ops, "ThroughHole")

\* The input list seen as the claims see it.
HoleCircles(list) ==
    SelectSeq(list, LAMBDA op : op.type = "SketchCircle" /\ op.is_hole)

PositiveCircles(list) ==
    SelectSeq(list, LAMBDA op : op.type = "SketchCircle" /\ ~op.is_hole)

\* The plane perpendicular to an axis.
PerpendicularPlane(axis) ==
    CASE axis = "z" -> "XY"
      [] axis = "x" -> "YZ"
      [] axis = "y" -> "XZ"

\* C12: on a grammatical list the cuts made so far are, in this order, the
\* hole-circle cuts of the base, the CutBox tools in input order, the
\* ThroughHole tools in input order; a returned solid has all of them.
C12_ModifierOrder ==
    (Grammatical(ops) /\ solid # None) =>
        LET cuts == solid[1].cuts
            nH == Len(HoleCircles(ops))
            cbs == OfType(ops, "CutBox")
            ths == OfType(ops, "ThroughHole")
        IN /\ Len(cuts) <= nH + Len(cbs) + Len(ths)
           /\ pc = "done" => Len(cuts) = nH + Len(cbs) + Len(ths)
           /\ \A k \in 1..Len(cuts) :
                 IF k <= nH
                 THEN cuts[k].kind = "extrusion" /\ cuts[k].lo = 0
                 ELSE IF k <= nH + Len(cbs)
                 THEN LET cb == cbs[k - nH]
                      IN /\ cuts[k].kind = "box"
                         /\ cuts[k].dims = <<cb.width, cb.depth, cb.height>>
                         /\ cuts[k].at = cb.center
                 ELSE LET hole == ths[k - nH - Len(cbs)]
                      IN /\ cuts[k].kind = "extrusion"
                         /\ cuts[k].lo < 0
                         /\ cuts[k].plane = PerpendicularPlane(hole.axis)
                         /\ cuts[k].wires[1].radius = hole.radius

\* C12 witness: a ThroughHole listed before a CutBox listed before the
\* BaseBox, all built.
C12_Witness ==
    /\ pc = "done"
    /\ Len(ops) = 3
    /\ ops[1].type = "ThroughHole"
    /\ ops[2].type = "CutBox"
    /\ ops[3].type = "BaseBox"
    /\ Len(solid[1].cuts) = 2

Min(a, b) == IF a < b THEN a ELSE b

CallsPerThroughHole == 5

\* C14 as stated: the sketch of every ThroughHole is made on the plane
\* perpendicular to its axis, and the centre passed is (cx, cy) on XY,
\* (cy, cz) on YZ, (cx, cz) on XZ.
C14_AsStated ==
    pc = "done" =>
        LET ths == OfType(ops, "ThroughHole")
        IN \A k \in 1..Len(ths) :
              LET first == Len(calls) - CallsPerThroughHole * (Len(ths) - k + 1) + 1
                  c == ths[k].center
              IN /\ calls[first].fn = "Workplane"
                 /\ calls[first].args = <<PerpendicularPlane(ths[k].axis)>>
                 /\ calls[first + 1].fn = "center"
                 /\ calls[first + 1].args =
                        (CASE ths[k].axis = "z" -> <<c[1], c[2]>>
                           [] ths[k].axis = "x" -> <<c[2], c[3]>>
                           [] ths[k].axis = "y" -> <<c[1], c[3]>>)

\* An operation that the classification loop must reject where it stands:
\* a parameter out of range, or a second Extrude or BaseBox.
SecondOfType(list, k) ==
    /\ list[k].type \in {"Extrude", "BaseBox"}
    /\ \E j \in 1..(k - 1) : list[j].type = list[k].type

Offending(list, k) == ~ParamsValid(list[k]) \/ SecondOfType(list, k)

ClassificationErrors(list, k) ==
    (IF ~ParamsValid(list[k]) THEN {"InvalidOperationParameter"} ELSE {})
    \cup (IF SecondOfType(list, k) /\ list[k].type = "Extrude"
          THEN {"DuplicateExtrude"} ELSE {})
    \cup (IF SecondOfType(list, k) /\ list[k].type = "BaseBox"
          THEN {"DuplicateBaseBox"} ELSE {})

\* C15: when a list of the five operation types has an offending operation,
\* the run never reaches the style checks, and it fails at the first
\* offending operation with a classification error of that operation.
C15_ClassificationFirst ==
    (~Has(ops, "Other") /\ \E k \in 1..Len(ops) : Offending(ops, k)) =>
        LET first == CHOOSE k \in 1..Len(ops) :
                         /\ Offending(ops, k)
                         /\ \A j \in 1..(k - 1) : ~Offending(ops, j)
        IN /\ pc \in {"start", "classify", "failed"}
           /\ pc = "failed" => i = first /\ err \in ClassificationErrors(ops, first)
           /\ calls = <<>>

\* C15 witness: a BaseBox and a SketchCircle (mixed styles) followed by an
\* operation with a bad parameter, which decided the error.
C15_Witness ==
    /\ pc = "failed"
    /\ err = "InvalidOperationParameter"
    /\ Len(ops) = 3
    /\ i = 3
    /\ ops[1].type = "BaseBox"
    /\ ops[2].type = "SketchCircle"

\* C16: a list without BaseBox and without Extrude whose operations all pass
\* their parameter checks fails before any construction: with the empty-spec
\* error when empty, with NoBaseStyle otherwise.
C16_NoBaseStyle ==
    (~Has(ops, "BaseBox") /\ ~Has(ops, "Extrude") /\ AllParamsValid(ops)) =>
        /\ pc \in Validating \cup {"failed"}
        /\ pc = "failed" => err = (IF ops = <<>> THEN "EmptySpec" ELSE "NoBaseStyle")
        /\ calls = <<>>
        /\ solid = None

\* C16 witness: a circle, a CutBox and a ThroughHole, and no base.
C16_Witness ==
    /\ pc = "failed"
    /\ err = "NoBaseStyle"
    /\ Has(ops, "SketchCircle")
    /\ Has(ops, "CutBox")
    /\ Has(ops, "ThroughHole")

\* ----- properties of generate_drawing -----------------------------------------
\* Some dimension names a view_id that no ViewSpec carries.
Dangling(dspec) == \A k \in 1..Len(views) : views[k].id # dspec.view_id

HasDangling == \E k \in 1..Len(dimensions) : Dangling(dimensions[k])

\* C5: when some dimension is dangling, no export call is ever issued and
\* the run ends in the unknown-view-reference error.
C5_DanglingNeverExported ==
    HasDangling =>
        /\ exports = <<>>
        /\ gpc \in {"views", "dims", "gfailed"}
        /\ gpc = "gfailed" => gerr = "UnknownViewReference"

\* C5 witness: the dangling dimension is the last one, after one that resolved.
C5_Witness ==
    /\ gpc = "gfailed"
    /\ gerr = "UnknownViewReference"
    /\ Len(dimensions) >= 2
    /\ gi = Len(dimensions)
    /\ ~Dangling(dimensions[1])

\* C6 as stated: when the run has failed with the unknown-view-reference
\* error, nothing has been created in the renderer session.
C6_AsStated ==
    gerr = "UnknownViewReference" =>
        /\ doc = None
        /\ objects = <<>>
        /\ page_views = <<>>

\* Number of ViewSpecs whose view has been created.
ViewsCreated ==
    IF gpc = "idle" THEN 0 ELSE IF gpc = "views" THEN gi - 1 ELSE Len(views)

\* The view created for the k-th ViewSpec.
ViewIndex(k) == TemplateIndex + k

\* C10: a view with is_section and no section_normal is created, added to
\* the page, marked as sectioned and given no section normal; a section
\* normal is set exactly on the views with is_section and a section_normal;
\* and the run fails only on a dangling dimension, so that it otherwise
\* goes on to the dimension pass and the export.
C10_SectionWithoutNormal ==
    /\ \A k \in 1..ViewsCreated :
          LET vspec == views[k]
              view == objects[ViewIndex(k)]
          IN /\ view.type = "TechDraw::DrawViewPart"
             /\ ViewIndex(k) \in {page_views[n] : n \in 1..Len(page_views)}
             /\ (view.Section = Some(TRUE)) <=> vspec.is_section
             /\ (view.SectionNormal # None) <=>
                    (vspec.is_section /\ vspec.section_normal # None)
             /\ view.SectionNormal # None => view.SectionNormal = vspec.section_normal
    /\ gpc = "gfailed" => HasDangling
    /\ gerr # "none" => gpc = "gfailed"
    /\ gpc = "gdone" => exports # <<>>

\* C10 witness: a finished, exported run with a dimension on a section view
\* that has no section_normal.
C10_Witness ==
    /\ gpc = "gdone"
    /\ exports # <<>>
    /\ dimensions # <<>>
    /\ \E k \in 1..Len(views) :
          /\ views[k].is_section
          /\ views[k].section_normal = None
          /\ objects[ViewIndex(k)].Section = Some(TRUE)
          /\ objects[ViewIndex(k)].SectionNormal = None

\* The dimension object created for the k-th DimensionSpec, and how many
\* have been created.
DimensionIndex(k) == TemplateIndex + Len(views) + k

DimensionsCreated ==
    IF gpc \in {"idle", "views"} THEN 0
    ELSE Len(objects) - TemplateIndex - Len(views)

\* A kind spells a lower-case word, letter case aside.
Spells(kind, word) ==
    /\ Len(kind) = Len(word)
    /\ \A n \in 1..Len(kind) :
          \/ kind[n] = word[n]
          \/ \E c \in 1..26 : kind[n] = UpperCase[c] /\ word[n] = LowerCase[c]

\* C17: every dimension created has type Distance when its kind spells
\* linear or distance, Diameter when it spells diameter, radial or radius,
\* and its kind itself otherwise; its label is the spec's label and its
\* references are the spec's edges in order; a run without a dangling
\* dimension creates every dimension and does not fail.
C17_DimensionKindMapping ==
    /\ DimensionsCreated <= Len(dimensions)
    /\ \A k \in 1..DimensionsCreated :
          LET dspec == dimensions[k]
              dim == objects[DimensionIndex(k)]
          IN /\ dim.type = "TechDraw::DrawViewDimension"
             /\ dim.Type =
                    (IF Spells(dspec.kind, StrLinear) \/ Spells(dspec.kind, StrDistance)
                     THEN TypeDistance
                     ELSE IF \/ Spells(dspec.kind, StrDiameter)
                             \/ Spells(dspec.kind, StrRadial)
                             \/ Spells(dspec.kind, StrRadius)
                     THEN TypeDiameter
                     ELSE dspec.kind)
             /\ dim.FormatSpec = dspec.label
             /\ [n \in 1..Len(dim.References2D) |-> dim.References2D[n][2]] = dspec.edges
             /\ DimensionIndex(k) \in {page_views[n] : n \in 1..Len(page_views)}
    /\ gpc \in {"export", "gdone"} => DimensionsCreated = Len(dimensions)
    /\ ~HasDangling => gpc # "gfailed" /\ gerr = "none"

\* C17 witness: a finished run with a dimension of a kind outside the two
\* groups (Angle) and one whose kind is upper case (RADIUS).
C17_Witness ==
    /\ gpc = "gdone"
    /\ Len(dimensions) = 2
    /\ dimensions[1].kind = <<"A", "n", "g", "l", "e">>
    /\ dimensions[2].kind = <<"R", "A", "D", "I", "U", "S">>
    /\ objects[DimensionIndex(1)].Type = <<"A", "n", "g", "l", "e">>
    /\ objects[DimensionIndex(2)].Type = TypeDiameter

\* The last ViewSpec of the list with a given id.
LastViewWithId(id) ==
    CHOOSE k \in 1..Len(views) :
        /\ views[k].id = id
        /\ \A j \in (k + 1)..Len(views) : views[j].id # id

\* C18: one view is created for every ViewSpec and the views are the first
\* things added to the page, once each and in list order, whether or not ids
\* repeat; every dimension created refers to
\* the view of the last ViewSpec with its view_id; the only failure is a
\* dangling dimension.
C18_LastRegistrationWins ==
    /\ gpc \notin {"idle", "views"} =>
          Len(objects) >= TemplateIndex + Len(views)
    /\ \A k \in 1..ViewsCreated :
          /\ objects[ViewIndex(k)] = ViewObject(views[k])
          /\ page_views[k] = ViewIndex(k)
    /\ \A k \in 1..DimensionsCreated :
          LET dspec == dimensions[k]
              dim == objects[DimensionIndex(k)]
          IN /\ ~Dangling(dspec)
             /\ \A n \in 1..Len(dim.References2D) :
                   dim.References2D[n][1] = Some(ViewIndex(LastViewWithId(dspec.view_id)))
    /\ Len(page_views) = ViewsCreated + DimensionsCreated
    /\ gpc = "gfailed" => gerr = "UnknownViewReference" /\ HasDangling

\* C18 witness: a finished run with two views of the same id and a
\* dimension on that id, attached to the second view.
C18_Witness ==
    /\ gpc = "gdone"
    /\ Len(views) = 2
    /\ views[1].id = views[2].id
    /\ views[1] # views[2]
    /\ Len(page_views) >= 3
    /\ dimensions # <<>>
    /\ dimensions[1].edges # <<>>
    /\ objects[DimensionIndex(1)].References2D[1][1] = Some(ViewIndex(2))

\* ----- properties of run_job ----------------------------------------------------
HasUnsupported ==
    \E k \in 1..Len(job[1].solid.operations) :
        JsonType(job[1].solid.operations[k]) \notin SupportedTypes

====
